---- MODULE Spec2Model ----
(***************************************************************************)
(* FileSystemCacheBin of osgEarth's file system cache driver                *)
(* (src/osgEarthDrivers/cache_filesystem/FileSystemCache.cpp): the          *)
(* write-pending cache, the per-key file gate, the pool of write workers    *)
(* and the key files on disk, as a state machine of caller threads and      *)
(* pool workers.                                                            *)
(***************************************************************************)
EXTENDS Integers, Sequences, FiniteSets, TLC

\* bounds of the model
MaxOps == 2        \* cache calls started by all caller threads together
MaxFail == 1       \* disk failures the environment injects

PoolSizes == {0, 2}              \* arguments of setNumThreads

Callers == {"c1", "c2"}          \* application threads calling the bin
Workers == {"w1", "w2"}          \* threads of the ThreadPool
Threads == Callers \cup Workers

Keys == {"k1"}                   \* the key the calls of Spec are made with
AllKeys == {"k1", "k2"}          \* the keys of the bin
Images == {"i1"}                 \* an osg::Image
Nodes == {"n1"}                  \* an osg::Node
Generic == {"g1"}                \* any other osg::Object
StringObjects == Generic         \* the one the model has is a StringObject
ReadModes == {"readObject", "readImage", "readString"}
Objs == Images \cup Nodes \cup Generic
Metas == {"empty", "m1"}         \* Config values; "empty" is Config().empty()

VARIABLES
    pc,             \* where each thread stands in its current call
    cur,            \* the locals of each thread's current call or task
    last,           \* each caller's last finished call and what it returned
    started,        \* how many calls each caller has started
    fails,          \* failures injected so far
    writeCache,     \* FileSystemCacheBin::_writeCache
    fileGate,       \* FileSystemCacheBin::_fileGate: who holds each key
    queue,          \* the ThreadPool's queue of WriteOperations
    primary,        \* the file <key>.osgb of each key
    sidecar,        \* the file <key>.meta of each key
    torn,           \* the keys whose file a failed write left incomplete
    ok,             \* FileSystemCacheBin::_ok
    binPathExists,  \* FileSystemCacheBin::_binPathExists
    rwValid,        \* FileSystemCacheBin::_rw.valid()
    threadPool,     \* FileSystemCacheBin::_threadPool != NULL
    binDirOnDisk,   \* the directory _binPath exists
    dirCreatable,   \* makeDirectoryForFile(_metaPath) can create it
    pool,           \* FileSystemCache::_threadPool and the pool the bin points to
    tree,           \* the directory tree under the cache root that clear walks
    reg             \* the FileSystemCache object: its status, its bins, the calls on it

vars == <<pc, cur, last, started, fails, writeCache, fileGate, queue,
          primary, sidecar, torn, ok, binPathExists, rwValid, threadPool, pool, tree, reg,
          binDirOnDisk, dirCreatable>>

binVars == <<ok, binPathExists, rwValid, threadPool, pool, tree, reg, binDirOnDisk, dirCreatable>>

----------------------------------------------------------------------------
\* values

\* a file's content is written in two parts; "none" is a part not written
Absent == [a |-> "absent", b |-> "absent"]
Partial(o) == [a |-> o, b |-> "none"]
Complete(o) == [a |-> o, b |-> o]
FileContents == {Absent} \cup [a : Objs, b : Objs \cup {"none"}]

\* WriteCacheRecord (lines 79-82); NoRecord stands for "no entry"
NoRecord == [obj |-> "null", meta |-> "empty"]
WriteCacheRecord(o, m) == [obj |-> o, meta |-> m]

\* the locals of a call or task; dirThen is not one of them: it records whether
\* the bin directory was on disk when the call began, for the properties
NoCur == [op |-> "none", key |-> "nokey", obj |-> "null", meta |-> "empty",
          writeOK |-> "unset", orphan |-> FALSE, dc |-> <<>>, dirThen |-> TRUE]
NewCur(op, k, o, m) ==
    [NoCur EXCEPT !.op = op, !.key = k, !.obj = o, !.meta = m, !.dirThen = binDirOnDisk]

\* a finished call: the call and the value it returned
NoLast == [op |-> "none", key |-> "nokey", obj |-> "null", meta |-> "empty",
           code |-> "NONE", robj |-> "null", rmeta |-> "empty"]
Returned(c, code, robj, rmeta) ==
    [op |-> c.op, key |-> c.key, obj |-> c.obj, meta |-> c.meta,
     code |-> code, robj |-> robj, rmeta |-> rmeta]

\* osgEarth::ReadResult(object, meta): found if and only if the object is not null
ReadResultOf(o, m) == IF o = "null" THEN <<"NOT_FOUND", "null", m>> ELSE <<"OK", o, m>>

\* readString, lines 529-547: what readObject found is passed on if it is a
\* StringObject; another object gives the empty ReadResult
AsString(mode, rr) ==
    IF mode = "readString" /\ rr[1] = "OK" /\ rr[2] \notin StringObjects
    THEN <<"NOT_FOUND", "null", "empty">>
    ELSE rr

RECURSIVE SumStarted(_)
SumStarted(S) ==
    IF S = {} THEN 0
    ELSE LET c == CHOOSE x \in S : TRUE IN started[c] + SumStarted(S \ {c})

\* a caller starts a call when it is in none
CanStart(c) == pc[c] = "idle" /\ SumStarted(Callers) < MaxOps

----------------------------------------------------------------------------
\* the codec (_rw) and the metadata sidecar

\* _rw->readObject / _rw->readImage of a key file: the object that was written,
\* when both parts are the same object's and the reader can return its kind
Decode(f, mode) ==
    IF f.a = f.b /\ f.a \in Objs /\ (mode = "readImage" => f.a \in Images)
    THEN f.a ELSE "null"

\* readMeta, lines 161-173 and 511-515: an absent sidecar leaves the Config empty
ReadMetaFile(k) == IF sidecar[k] = "absent" THEN "empty" ELSE sidecar[k]

----------------------------------------------------------------------------
\* Gate<std::string> and ThreadPool, from their contract

GateFree(k) == fileGate[k] = "free"
GateLock(t, k) == [fileGate EXCEPT ![k] = t]
GateUnlock(k) == [fileGate EXCEPT ![k] = "free"]

PoolRun(task) == Append(queue, task)

----------------------------------------------------------------------------
\* validity of the bin

\* the bug of a bin that stays invalid once it found its directory missing
ValidForReadingLatched ==
    IF ~rwValid THEN [ok |-> FALSE, bpe |-> binPathExists]
    ELSE IF ~binPathExists
         THEN IF binDirOnDisk /\ ok THEN [ok |-> TRUE, bpe |-> TRUE]
              ELSE [ok |-> FALSE, bpe |-> FALSE]
         ELSE [ok |-> ok, bpe |-> binPathExists]

\* the bug of a bin that tests its directory on every call
ValidForReadingRechecks ==
    IF ~rwValid THEN [ok |-> FALSE, bpe |-> binPathExists]
    ELSE IF binDirOnDisk THEN [ok |-> TRUE, bpe |-> TRUE]
         ELSE [ok |-> FALSE, bpe |-> FALSE]

\* binValidForReading, lines 266-293: the new <<_ok, _binPathExists>>
ValidForReading ==
    IF ~rwValid THEN [ok |-> FALSE, bpe |-> binPathExists]
    ELSE IF ~binPathExists
         THEN IF binDirOnDisk THEN [ok |-> TRUE, bpe |-> TRUE]
              ELSE [ok |-> FALSE, bpe |-> FALSE]
         ELSE [ok |-> ok, bpe |-> binPathExists]

\* the bug of a write check that does not make the bin directory
ValidForWritingNoMkdir ==
    IF ~rwValid THEN [ok |-> FALSE, bpe |-> binPathExists, dir |-> binDirOnDisk]
    ELSE IF ~binPathExists
         THEN LET d == binDirOnDisk
              IN  IF d THEN [ok |-> TRUE, bpe |-> TRUE, dir |-> d]
                  ELSE [ok |-> FALSE, bpe |-> FALSE, dir |-> d]
         ELSE [ok |-> ok, bpe |-> binPathExists, dir |-> binDirOnDisk]

\* binValidForWriting, lines 295-324: the new <<_ok, _binPathExists>> and
\* whether the bin directory exists after makeDirectoryForFile
ValidForWriting ==
    IF ~rwValid THEN [ok |-> FALSE, bpe |-> binPathExists, dir |-> binDirOnDisk]
    ELSE IF ~binPathExists
         THEN LET d == binDirOnDisk \/ dirCreatable
              IN  IF d THEN [ok |-> TRUE, bpe |-> TRUE, dir |-> d]
                  ELSE [ok |-> FALSE, bpe |-> FALSE, dir |-> d]
         ELSE [ok |-> ok, bpe |-> binPathExists, dir |-> binDirOnDisk]

----------------------------------------------------------------------------
TypeOK ==
    /\ pc \in [Threads -> STRING]
    /\ started \in [Callers -> 0..MaxOps]
    /\ fails \in 0..MaxFail
    /\ writeCache \in [AllKeys -> {NoRecord} \cup [obj : Objs, meta : Metas]]
    /\ fileGate \in [AllKeys -> Threads \cup {"free"}]
    /\ primary \in [AllKeys -> FileContents]
    /\ sidecar \in [AllKeys -> Metas \cup {"absent"}]
    /\ torn \subseteq AllKeys
    /\ ok \in BOOLEAN /\ binPathExists \in BOOLEAN

\* what an earlier run of the program left on disk: no bin directory, an empty
\* one, or one that holds a record with its sidecar
EarlierRun ==
    {[dir |-> FALSE, file |-> Absent, meta |-> "absent"],
     [dir |-> TRUE, file |-> Absent, meta |-> "absent"]}
    \cup {[dir |-> TRUE, file |-> Complete(o), meta |-> "m1"] : o \in Images}

\* the tree variable when clear is not under study: nothing but the key files
NoTree == [id |-> <<>>, disk |-> {}, denied |-> {}, tried |-> {}, result |-> "none"]

\* the names addBin is called with
BinNames == {"a", "b"}

\* the FileSystemCache object (lines 50-77, and _status, _bins and _defaultBin
\* of its base class Cache) with the calls running on it. A bin object is a
\* number from 1, in the order of construction; 0 is NULL. `lockDefault` is
\* s_defaultBinMutex; `at`, `name`, `made` and `ret` are each caller's place
\* in its call, the name it passed, the bin it constructed and the pointer it
\* was returned (-1 before its first return); `built` counts the bins
\* constructed and `calls` the calls started
Cache(status) ==
    [status |-> status,
     bins |-> [n \in BinNames |-> 0],
     defaultBin |-> 0,
     built |-> 0,
     lockDefault |-> "free",
     at |-> [c \in Callers |-> "idle"],
     name |-> [c \in Callers |-> "none"],
     made |-> [c \in Callers |-> 0],
     ret |-> [c \in Callers |-> -1],
     calls |-> 0]

\* the reg variable when the registry is not under study: a cache that opened
NoReg == Cache("OK")

\* the state after the cache's constructor (lines 189-219), with or without a
\* pool, and after addBin and the bin's constructor (lines 237-244, 326-360):
\* _threadPool is the cache's pool, _ok is true, _binPathExists false, the
\* write cache empty, no key held
Init ==
    /\ pc = [t \in Threads |-> "idle"]
    /\ cur = [t \in Threads |-> NoCur]
    /\ last = [c \in Callers |-> NoLast]
    /\ started = [c \in Callers |-> 0]
    /\ fails = 0
    /\ writeCache = [k \in AllKeys |-> NoRecord]
    /\ fileGate = [k \in AllKeys |-> "free"]
    /\ queue = <<>>
    /\ \E e \in EarlierRun :
        /\ binDirOnDisk = e.dir
        /\ primary = [k \in AllKeys |-> IF k \in Keys THEN e.file ELSE Absent]
        /\ sidecar = [k \in AllKeys |-> IF k \in Keys THEN e.meta ELSE "absent"]
    /\ torn = {}
    /\ ok = TRUE
    /\ binPathExists = FALSE
    /\ rwValid = TRUE
    /\ threadPool \in BOOLEAN
    /\ pool = [cache |-> threadPool, alive |-> TRUE]
    /\ tree = NoTree
    /\ reg = NoReg
    /\ dirCreatable = TRUE

----------------------------------------------------------------------------
\* a call returns: the caller is idle again and `last` holds the result
Return(c, call, code, robj, rmeta) ==
    /\ last' = [last EXCEPT ![c] = Returned(call, code, robj, rmeta)]
    /\ pc' = [pc EXCEPT ![c] = "idle"]

Goto(t, label) == pc' = [pc EXCEPT ![t] = label]

Count(c) == started' = [started EXCEPT ![c] = @ + 1]

\* ::unlink of a key file that a write task has open: the name goes, the task
\* keeps writing to a file that no path leads to any more
Orphaned(k) ==
    [t \in Threads |->
        IF pc[t] = "t_write2" /\ cur[t].key = k
        THEN [cur[t] EXCEPT !.orphan = TRUE] ELSE cur[t]]

----------------------------------------------------------------------------
\* readObject (lines 455-524), readImage (lines 384-453) and readString
\* (lines 526-548), which calls readObject

\* lines 458-459 / 387-388
CallRead(c, k, mode) ==
    /\ CanStart(c)
    /\ Count(c)
    /\ LET v == ValidForReading IN
        /\ ok' = v.ok
        /\ binPathExists' = v.bpe
        /\ IF v.ok
           THEN /\ Goto(c, "rd_exists")
                /\ cur' = [cur EXCEPT ![c] = NewCur(mode, k, "null", "empty")]
                /\ UNCHANGED last
           ELSE /\ Return(c, NewCur(mode, k, "null", "empty"), "NOT_FOUND", "null", "empty")
                /\ UNCHANGED cur
    /\ UNCHANGED <<fails, writeCache, fileGate, queue, primary, sidecar, torn,
                   rwValid, threadPool, pool, tree, reg, binDirOnDisk, dirCreatable>>

\* lines 465-472 / 394-401: fileExists(path), before the gate is taken (the
\* time stamp that getLastModifiedTime reads next is not part of the model)
ReadExists(c) ==
    /\ pc[c] = "rd_exists"
    /\ IF primary[cur[c].key] = Absent
       THEN /\ Return(c, cur[c], "NOT_FOUND", "null", "empty")
            /\ cur' = [cur EXCEPT ![c] = NoCur]
       ELSE /\ Goto(c, "rd_lock")
            /\ UNCHANGED <<cur, last>>
    /\ UNCHANGED <<started, fails, writeCache, fileGate, queue, primary, sidecar, torn, binVars>>

\* line 475 / 404: ScopedGate lockFile(_fileGate, fileURI.full())
ReadLock(c) ==
    /\ pc[c] = "rd_lock"
    /\ GateFree(cur[c].key)
    /\ fileGate' = GateLock(c, cur[c].key)
    /\ Goto(c, "rd_cache")
    /\ UNCHANGED <<cur, last, started, fails, writeCache, queue, primary, sidecar, torn, binVars>>

\* the bug of a read that returns what the write cache holds with the gate
\* of the key still locked
ReadCacheKeepsGate(c) ==
    /\ pc[c] = "rd_cache"
    /\ LET k == cur[c].key
           rec == writeCache[k]
           o == IF cur[c].op = "readImage" /\ rec.obj \notin Images THEN "null" ELSE rec.obj
           rr == AsString(cur[c].op, ReadResultOf(o, rec.meta))
       IN  IF threadPool /\ rec # NoRecord
           THEN /\ Return(c, cur[c], rr[1], rr[2], rr[3])
                /\ cur' = [cur EXCEPT ![c] = NoCur]
                /\ UNCHANGED fileGate
           ELSE /\ Goto(c, "rd_disk")
                /\ UNCHANGED <<cur, last, fileGate>>
    /\ UNCHANGED <<started, fails, writeCache, queue, primary, sidecar, torn, binVars>>

\* lines 477-498 / 406-427: the write-pending cache, under the read lock;
\* readImage casts the cached object to an image
ReadCache(c) ==
    /\ pc[c] = "rd_cache"
    /\ LET k == cur[c].key
           rec == writeCache[k]
           o == IF cur[c].op = "readImage" /\ rec.obj \notin Images THEN "null" ELSE rec.obj
           rr == AsString(cur[c].op, ReadResultOf(o, rec.meta))
       IN  IF threadPool /\ rec # NoRecord
           THEN /\ Return(c, cur[c], rr[1], rr[2], rr[3])
                /\ cur' = [cur EXCEPT ![c] = NoCur]
                /\ fileGate' = GateUnlock(k)
           ELSE /\ Goto(c, "rd_disk")
                /\ UNCHANGED <<cur, last, fileGate>>
    /\ UNCHANGED <<started, fails, writeCache, queue, primary, sidecar, torn, binVars>>

\* the bug of a read that deletes the file it cannot decode
ReadDiskDropsBadFile(c) ==
    /\ pc[c] = "rd_disk"
    /\ LET k == cur[c].key
           o == Decode(primary[k], cur[c].op)
       IN  IF o = "null"
           THEN /\ Return(c, cur[c], "NOT_FOUND", "null", "empty")
                /\ cur' = [cur EXCEPT ![c] = NoCur]
                /\ fileGate' = GateUnlock(k)
                /\ primary' = [primary EXCEPT ![k] = Absent]
           ELSE /\ Goto(c, "rd_meta")
                /\ cur' = [cur EXCEPT ![c].obj = o]
                /\ UNCHANGED <<last, fileGate, primary>>
    /\ UNCHANGED <<started, fails, writeCache, queue, sidecar, torn, binVars>>

\* lines 500-509 / 429-438: _rw->readObject(path) or _rw->readImage(path)
ReadDisk(c) ==
    /\ pc[c] = "rd_disk"
    /\ LET k == cur[c].key
           o == Decode(primary[k], cur[c].op)
       IN  IF o = "null"
           THEN /\ Return(c, cur[c], "NOT_FOUND", "null", "empty")
                /\ cur' = [cur EXCEPT ![c] = NoCur]
                /\ fileGate' = GateUnlock(k)
           ELSE /\ Goto(c, "rd_meta")
                /\ cur' = [cur EXCEPT ![c].obj = o]
                /\ UNCHANGED <<last, fileGate>>
    /\ UNCHANGED <<started, fails, writeCache, queue, primary, sidecar, torn, binVars>>

\* lines 511-523 / 440-452: the sidecar, then the result; the gate opens
ReadMeta(c) ==
    /\ pc[c] = "rd_meta"
    /\ LET k == cur[c].key
           rr == AsString(cur[c].op, ReadResultOf(cur[c].obj, ReadMetaFile(k)))
       IN  /\ Return(c, [cur[c] EXCEPT !.obj = "null"], rr[1], rr[2], rr[3])
           /\ cur' = [cur EXCEPT ![c] = NoCur]
           /\ fileGate' = GateUnlock(k)
    /\ UNCHANGED <<started, fails, writeCache, queue, primary, sidecar, torn, binVars>>

\* the result code of readObject (lines 455-524) when it runs from its first
\* line to its return with nothing else running
ReadObjectAlone(k) ==
    IF ~ValidForReading.ok THEN "NOT_FOUND"
    ELSE IF primary[k] = Absent THEN "NOT_FOUND"
    ELSE IF threadPool /\ writeCache[k] # NoRecord
         THEN ReadResultOf(writeCache[k].obj, writeCache[k].meta)[1]
         ELSE ReadResultOf(Decode(primary[k], "readObject"), ReadMetaFile(k))[1]

\* the code getRecordStatus (lines 698-710) returns when it runs with nothing
\* else running
StatusAlone(k) ==
    IF ~ValidForReading.ok THEN "NOT_FOUND"
    ELSE IF primary[k] # Absent THEN "OK" ELSE "NOT_FOUND"

----------------------------------------------------------------------------
\* write (lines 641-696)

\* the bug of a write that hands a node to the pool like any other object
CallWriteNodeToPool(c, k, o, m) ==
    /\ CanStart(c)
    /\ Count(c)
    /\ LET v == ValidForWriting IN
        /\ ok' = v.ok
        /\ binPathExists' = v.bpe
        /\ binDirOnDisk' = v.dir
        /\ IF ~v.ok \/ o = "null"
           THEN /\ Return(c, NewCur("write", k, o, m), "FALSE", "null", "empty")
                /\ UNCHANGED cur
           ELSE /\ cur' = [cur EXCEPT ![c] = NewCur("write", k, o, m)]
                /\ Goto(c, IF threadPool THEN "wr_insert" ELSE "t_lock")
                /\ UNCHANGED last
    /\ UNCHANGED <<fails, writeCache, fileGate, queue, primary, sidecar, torn,
                   rwValid, threadPool, pool, tree, reg, dirCreatable>>

\* lines 648-662: the validity check and the null check, then the choice
\* between the pool and the calling thread
CallWrite(c, k, o, m) ==
    /\ CanStart(c)
    /\ Count(c)
    /\ LET v == ValidForWriting
           isNode == o \in Nodes
       IN
        /\ ok' = v.ok
        /\ binPathExists' = v.bpe
        /\ binDirOnDisk' = v.dir
        /\ IF ~v.ok \/ o = "null"
           THEN /\ Return(c, NewCur("write", k, o, m), "FALSE", "null", "empty")
                /\ UNCHANGED cur
           ELSE /\ cur' = [cur EXCEPT ![c] = NewCur("write", k, o, m)]
                /\ Goto(c, IF threadPool /\ ~isNode THEN "wr_insert" ELSE "t_lock")
                /\ UNCHANGED last
    /\ UNCHANGED <<fails, writeCache, fileGate, queue, primary, sidecar, torn,
                   rwValid, threadPool, pool, tree, reg, dirCreatable>>

\* the bug of a write that takes the gate of the key before it touches the
\* write cache
WriteInsertWaitsForGate(c) ==
    /\ pc[c] = "wr_insert"
    /\ GateFree(cur[c].key)
    /\ writeCache' = [writeCache EXCEPT ![cur[c].key] = WriteCacheRecord(cur[c].obj, cur[c].meta)]
    /\ Goto(c, "wr_run")
    /\ UNCHANGED <<cur, last, started, fails, fileGate, queue, primary, sidecar, torn, binVars>>

\* lines 667-671: the record goes into the write cache, under the write lock
WriteInsert(c) ==
    /\ pc[c] = "wr_insert"
    /\ writeCache' = [writeCache EXCEPT ![cur[c].key] = WriteCacheRecord(cur[c].obj, cur[c].meta)]
    /\ Goto(c, "wr_run")
    /\ UNCHANGED <<cur, last, started, fails, fileGate, queue, primary, sidecar, torn, binVars>>

\* lines 674-681 and 695: the WriteOperation is queued; write returns true.
\* _threadPool is a plain pointer: when setNumThreads has destroyed the pool,
\* run() works on freed memory, and the operation is queued or is lost
WriteRun(c) ==
    /\ pc[c] = "wr_run"
    /\ \/ queue' = PoolRun([key |-> cur[c].key, obj |-> cur[c].obj, meta |-> cur[c].meta])
       \/ ~pool.alive /\ queue' = queue
    /\ Return(c, cur[c], "TRUE", "null", "empty")
    /\ cur' = [cur EXCEPT ![c] = NoCur]
    /\ UNCHANGED <<started, fails, writeCache, fileGate, primary, sidecar, torn, binVars>>

----------------------------------------------------------------------------
\* WriteOperation::operator() (lines 572-630), run by a pool worker or, for a
\* synchronous write, by the caller (lines 683-693)

\* a worker of the pool takes the oldest queued operation; the idle workers
\* are alike, so w2 is taken to wake only when w1 is busy
WorkerTake(w) ==
    /\ pc[w] = "idle"
    /\ queue # <<>>
    /\ w = "w1" \/ pc["w1"] # "idle"
    /\ cur' = [cur EXCEPT ![w] = NewCur("task", Head(queue).key, Head(queue).obj, Head(queue).meta)]
    /\ queue' = Tail(queue)
    /\ Goto(w, "t_lock")
    /\ UNCHANGED <<last, started, fails, writeCache, fileGate, primary, sidecar, torn, binVars>>

\* the bug of a write task that does not wait for the gate
TaskLockNoWait(t) ==
    /\ pc[t] = "t_lock"
    /\ fileGate' = GateLock(t, cur[t].key)
    /\ Goto(t, "t_write1")
    /\ UNCHANGED <<cur, last, started, fails, writeCache, queue, primary, sidecar, torn, binVars>>

\* line 577: ScopedGate lockFile(_bin->_fileGate, _uri.full())
TaskLock(t) ==
    /\ pc[t] = "t_lock"
    /\ GateFree(cur[t].key)
    /\ fileGate' = GateLock(t, cur[t].key)
    /\ Goto(t, "t_write1")
    /\ UNCHANGED <<cur, last, started, fails, writeCache, queue, primary, sidecar, torn, binVars>>

\* lines 580-606, first part: the parent directory is made if it is missing,
\* the file is opened and truncated and the first part written; or the open fails
TaskWrite1(t) ==
    /\ pc[t] = "t_write1"
    /\ LET k == cur[t].key
           dir == binDirOnDisk \/ dirCreatable
       IN
        /\ binDirOnDisk' = dir
        /\ \/ /\ dir
              /\ primary' = [primary EXCEPT ![k] = Partial(cur[t].obj)]
              /\ torn' = torn \ {k}
              /\ Goto(t, "t_write2")
              /\ UNCHANGED <<cur, fails>>
           \/ /\ ~dir \/ fails < MaxFail
              /\ fails' = IF dir THEN fails + 1 ELSE fails
              /\ cur' = [cur EXCEPT ![t].writeOK = "fail"]
              /\ Goto(t, "t_meta")
              /\ UNCHANGED <<primary, torn>>
    /\ UNCHANGED <<last, started, writeCache, fileGate, queue, sidecar,
                   ok, binPathExists, rwValid, threadPool, pool, tree, reg, dirCreatable>>

\* the bug of a gate that is scoped to the primary write only
TaskWrite2ReleasesGate(t) ==
    /\ pc[t] = "t_write2"
    /\ LET k == cur[t].key IN
        /\ primary' = IF cur[t].orphan THEN primary
                      ELSE [primary EXCEPT ![k].b = cur[t].obj]
        /\ cur' = [cur EXCEPT ![t].writeOK = "ok"]
        /\ fileGate' = GateUnlock(k)
    /\ Goto(t, "t_meta")
    /\ UNCHANGED <<last, started, fails, writeCache, queue, sidecar, torn, binVars>>

\* lines 585-606, second part: the rest is written and the file closed
\* (writeOK = r.success()); or the write fails part-way
TaskWrite2(t) ==
    /\ pc[t] = "t_write2"
    /\ LET k == cur[t].key IN
        \/ /\ primary' = IF cur[t].orphan THEN primary
                         ELSE [primary EXCEPT ![k].b = cur[t].obj]
           /\ cur' = [cur EXCEPT ![t].writeOK = "ok"]
           /\ UNCHANGED <<fails, torn>>
        \/ /\ fails < MaxFail
           /\ fails' = fails + 1
           /\ cur' = [cur EXCEPT ![t].writeOK = "fail"]
           /\ torn' = IF cur[t].orphan THEN torn ELSE torn \cup {k}
           /\ UNCHANGED primary
    /\ Goto(t, "t_meta")
    /\ UNCHANGED <<last, started, writeCache, fileGate, queue, sidecar, binVars>>

\* the bug of a task that writes the metadata whether or not the object was
\* written
TaskMetaAlways(t) ==
    /\ pc[t] = "t_meta"
    /\ sidecar' = IF cur[t].meta # "empty" /\ binDirOnDisk
                  THEN [sidecar EXCEPT ![cur[t].key] = cur[t].meta]
                  ELSE sidecar
    /\ Goto(t, "t_erase")
    /\ UNCHANGED <<cur, last, started, fails, writeCache, fileGate, queue, primary, torn, binVars>>

\* lines 608-623: writeMeta (lines 150-159) when the metadata is not empty
\* and the object was written
TaskMeta(t) ==
    /\ pc[t] = "t_meta"
    /\ sidecar' = IF cur[t].meta # "empty" /\ cur[t].writeOK = "ok" /\ binDirOnDisk
                  THEN [sidecar EXCEPT ![cur[t].key] = cur[t].meta]
                  ELSE sidecar
    /\ Goto(t, "t_erase")
    /\ UNCHANGED <<cur, last, started, fails, writeCache, fileGate, queue, primary, torn, binVars>>

\* the bug of an erase on the success path only
TaskEraseOnSuccessOnly(t) ==
    /\ pc[t] = "t_erase"
    /\ writeCache' = IF cur[t].writeOK = "ok"
                     THEN [writeCache EXCEPT ![cur[t].key] = NoRecord]
                     ELSE writeCache
    /\ Goto(t, "t_unlock")
    /\ UNCHANGED <<cur, last, started, fails, fileGate, queue, primary, sidecar, torn, binVars>>

\* lines 625-629: _writeCache.erase(_uri.full()), under the write lock
TaskErase(t) ==
    /\ pc[t] = "t_erase"
    /\ writeCache' = [writeCache EXCEPT ![cur[t].key] = NoRecord]
    /\ Goto(t, "t_unlock")
    /\ UNCHANGED <<cur, last, started, fails, fileGate, queue, primary, sidecar, torn, binVars>>

\* line 630: lockFile goes out of scope; a synchronous write returns true
\* (line 695), a worker is free for the next operation
TaskUnlock(t) ==
    /\ pc[t] = "t_unlock"
    /\ fileGate' = GateUnlock(cur[t].key)
    /\ IF t \in Callers
       THEN Return(t, cur[t], "TRUE", "null", "empty")
       ELSE Goto(t, "idle") /\ UNCHANGED last
    /\ cur' = [cur EXCEPT ![t] = NoCur]
    /\ UNCHANGED <<started, fails, writeCache, queue, primary, sidecar, torn, binVars>>

----------------------------------------------------------------------------
\* remove (lines 712-722)

\* line 715
CallRemove(c, k) ==
    /\ CanStart(c)
    /\ Count(c)
    /\ LET v == ValidForReading IN
        /\ ok' = v.ok
        /\ binPathExists' = v.bpe
        /\ IF v.ok
           THEN /\ Goto(c, "rm_lock")
                /\ cur' = [cur EXCEPT ![c] = NewCur("remove", k, "null", "empty")]
                /\ UNCHANGED last
           ELSE /\ Return(c, NewCur("remove", k, "null", "empty"), "FALSE", "null", "empty")
                /\ UNCHANGED cur
    /\ UNCHANGED <<fails, writeCache, fileGate, queue, primary, sidecar, torn,
                   rwValid, threadPool, pool, tree, reg, binDirOnDisk, dirCreatable>>

\* line 720: ScopedGate lockFile(_fileGate, fileURI.full())
RemoveLock(c) ==
    /\ pc[c] = "rm_lock"
    /\ GateFree(cur[c].key)
    /\ fileGate' = GateLock(c, cur[c].key)
    /\ Goto(c, "rm_unlink")
    /\ UNCHANGED <<cur, last, started, fails, writeCache, queue, primary, sidecar, torn, binVars>>

\* the bug of a remove that also drops the pending entry of the key
RemoveUnlinkErases(c) ==
    /\ pc[c] = "rm_unlink"
    /\ LET k == cur[c].key IN
        /\ primary' = [primary EXCEPT ![k] = Absent]
        /\ torn' = torn \ {k}
        /\ writeCache' = [writeCache EXCEPT ![k] = NoRecord]
        /\ Return(c, cur[c], IF primary[k] # Absent THEN "TRUE" ELSE "FALSE", "null", "empty")
        /\ cur' = [Orphaned(k) EXCEPT ![c] = NoCur]
        /\ fileGate' = GateUnlock(k)
    /\ UNCHANGED <<started, fails, queue, sidecar, binVars>>

\* the bug of a remove that reports success whatever unlink returned
RemoveUnlinkReportsTrue(c) ==
    /\ pc[c] = "rm_unlink"
    /\ LET k == cur[c].key IN
        /\ primary' = [primary EXCEPT ![k] = Absent]
        /\ torn' = torn \ {k}
        /\ Return(c, cur[c], "TRUE", "null", "empty")
        /\ cur' = [Orphaned(k) EXCEPT ![c] = NoCur]
        /\ fileGate' = GateUnlock(k)
    /\ UNCHANGED <<started, fails, writeCache, queue, sidecar, binVars>>

\* line 721: ::unlink(path) == 0, true if and only if the file was there
RemoveUnlink(c) ==
    /\ pc[c] = "rm_unlink"
    /\ LET k == cur[c].key IN
        /\ IF primary[k] # Absent
           THEN /\ primary' = [primary EXCEPT ![k] = Absent]
                /\ torn' = torn \ {k}
                /\ Return(c, cur[c], "TRUE", "null", "empty")
                /\ cur' = [Orphaned(k) EXCEPT ![c] = NoCur]
           ELSE /\ Return(c, cur[c], "FALSE", "null", "empty")
                /\ cur' = [cur EXCEPT ![c] = NoCur]
                /\ UNCHANGED <<primary, torn>>
        /\ fileGate' = GateUnlock(k)
    /\ UNCHANGED <<started, fails, writeCache, queue, sidecar, binVars>>

----------------------------------------------------------------------------
\* touch (lines 724-734)

\* line 727
CallTouch(c, k) ==
    /\ CanStart(c)
    /\ Count(c)
    /\ LET v == ValidForReading IN
        /\ ok' = v.ok
        /\ binPathExists' = v.bpe
        /\ IF v.ok
           THEN /\ Goto(c, "tc_lock")
                /\ cur' = [cur EXCEPT ![c] = NewCur("touch", k, "null", "empty")]
                /\ UNCHANGED last
           ELSE /\ Return(c, NewCur("touch", k, "null", "empty"), "FALSE", "null", "empty")
                /\ UNCHANGED cur
    /\ UNCHANGED <<fails, writeCache, fileGate, queue, primary, sidecar, torn,
                   rwValid, threadPool, pool, tree, reg, binDirOnDisk, dirCreatable>>

\* line 732
TouchLock(c) ==
    /\ pc[c] = "tc_lock"
    /\ GateFree(cur[c].key)
    /\ fileGate' = GateLock(c, cur[c].key)
    /\ Goto(c, "tc_touch")
    /\ UNCHANGED <<cur, last, started, fails, writeCache, queue, primary, sidecar, torn, binVars>>

\* line 733: touchFile(path) sets the file's times and leaves its content;
\* it succeeds if and only if the file is there
TouchFile(c) ==
    /\ pc[c] = "tc_touch"
    /\ Return(c, cur[c], IF primary[cur[c].key] # Absent THEN "TRUE" ELSE "FALSE", "null", "empty")
    /\ cur' = [cur EXCEPT ![c] = NoCur]
    /\ fileGate' = GateUnlock(cur[c].key)
    /\ UNCHANGED <<started, fails, writeCache, queue, primary, sidecar, torn, binVars>>

----------------------------------------------------------------------------
\* getRecordStatus (lines 698-710)

\* lines 701-702
CallStatus(c, k) ==
    /\ CanStart(c)
    /\ Count(c)
    /\ LET v == ValidForReading IN
        /\ ok' = v.ok
        /\ binPathExists' = v.bpe
        /\ IF v.ok
           THEN /\ Goto(c, "gs_exists")
                /\ cur' = [cur EXCEPT ![c] = NewCur("getRecordStatus", k, "null", "empty")]
                /\ UNCHANGED last
           ELSE /\ Return(c, NewCur("getRecordStatus", k, "null", "empty"), "NOT_FOUND", "null", "empty")
                /\ UNCHANGED cur
    /\ UNCHANGED <<fails, writeCache, fileGate, queue, primary, sidecar, torn,
                   rwValid, threadPool, pool, tree, reg, binDirOnDisk, dirCreatable>>

\* lines 704-709: fileExists(path), with no gate
StatusExists(c) ==
    /\ pc[c] = "gs_exists"
    /\ Return(c, cur[c], IF primary[cur[c].key] # Absent THEN "OK" ELSE "NOT_FOUND", "null", "empty")
    /\ cur' = [cur EXCEPT ![c] = NoCur]
    /\ UNCHANGED <<started, fails, writeCache, fileGate, queue, primary, sidecar, torn, binVars>>

----------------------------------------------------------------------------
\* clear (lines 779-787) and purgeDirectory (lines 736-777) over the key files
\* of the bin directory

\* the directory entries of the key files that exist, in directory order
RECURSIVE KeyFiles(_)
KeyFiles(S) ==
    IF S = {} THEN <<>>
    ELSE LET k == CHOOSE x \in S : TRUE
         IN  (IF primary[k] # Absent THEN <<[key |-> k, ext |-> "osgb"]>> ELSE <<>>)
             \o (IF sidecar[k] # "absent" THEN <<[key |-> k, ext |-> "meta"]>> ELSE <<>>)
             \o KeyFiles(S \ {k})

\* lines 782-783
CallClear(c) ==
    /\ CanStart(c)
    /\ Count(c)
    /\ LET v == ValidForReading IN
        /\ ok' = v.ok
        /\ binPathExists' = v.bpe
        /\ IF v.ok
           THEN /\ Goto(c, "cl_list")
                /\ cur' = [cur EXCEPT ![c] = NewCur("clear", "nokey", "null", "empty")]
                /\ UNCHANGED last
           ELSE /\ Return(c, NewCur("clear", "nokey", "null", "empty"), "FALSE", "null", "empty")
                /\ UNCHANGED cur
    /\ UNCHANGED <<fails, writeCache, fileGate, queue, primary, sidecar, torn,
                   rwValid, threadPool, pool, tree, reg, binDirOnDisk, dirCreatable>>

\* lines 739-742: getDirectoryContents(dir); with nothing to purge, clear
\* returns allOK = true
ClearList(c) ==
    /\ pc[c] = "cl_list"
    /\ LET dc == KeyFiles(AllKeys) IN
        IF dc = <<>>
        THEN /\ Return(c, cur[c], "TRUE", "null", "empty")
             /\ cur' = [cur EXCEPT ![c] = NoCur]
        ELSE /\ Goto(c, "cl_unlink")
             /\ cur' = [cur EXCEPT ![c].dc = dc]
             /\ UNCHANGED last
    /\ UNCHANGED <<started, fails, writeCache, fileGate, queue, primary, sidecar, torn, binVars>>

\* lines 744-776, one round of the loop: a regular file that is not _metaPath
\* is unlinked, with no gate; an entry that is gone by now is passed over.
\* After the last entry clear returns allOK.
ClearUnlink(c) ==
    /\ pc[c] = "cl_unlink"
    /\ LET e == Head(cur[c].dc)
           rest == Tail(cur[c].dc)
           orphans == IF e.ext = "osgb" /\ primary[e.key] # Absent THEN Orphaned(e.key) ELSE cur
       IN
        /\ primary' = IF e.ext = "osgb" THEN [primary EXCEPT ![e.key] = Absent] ELSE primary
        /\ sidecar' = IF e.ext = "meta" THEN [sidecar EXCEPT ![e.key] = "absent"] ELSE sidecar
        /\ torn' = IF e.ext = "osgb" THEN torn \ {e.key} ELSE torn
        /\ IF rest = <<>>
           THEN /\ Return(c, cur[c], "TRUE", "null", "empty")
                /\ cur' = [orphans EXCEPT ![c] = NoCur]
           ELSE /\ cur' = [orphans EXCEPT ![c].dc = rest]
                /\ UNCHANGED <<pc, last>>
    /\ UNCHANGED <<started, fails, writeCache, fileGate, queue, binVars>>

----------------------------------------------------------------------------
\* clear (lines 779-787) and purgeDirectory (lines 736-777) over a directory
\* tree, run with nothing else running. A name is a sequence of characters and
\* a path the sequence of the names below the cache root; tree.disk holds the
\* entries that exist, tree.denied the files that ::unlink cannot remove

RootPath == <<"r">>                                   \* _rootPath
BinIDs == {<<"a">>, <<"a", "b">>, <<"a", "b", "c">>}  \* getID() of the bins
MetaName == <<"j">>                                   \* osgearth_cacheinfo.json
DotNames == {<<".">>, <<".", ".">>}

\* osgDB::concatPaths of the root and the names of a path: the path as a string
RECURSIVE FullPath(_)
FullPath(p) ==
    IF p = <<>> THEN RootPath
    ELSE FullPath(SubSeq(p, 1, Len(p) - 1)) \o <<"/">> \o p[Len(p)]

\* std::string::find(sub) != npos
Find(str, sub) ==
    \E i \in 0..(Len(str) - Len(sub)) : SubSeq(str, i + 1, i + Len(sub)) = sub

\* osgDB::getFilePath: the path without its last name
getFilePath(p) == SubSeq(p, 1, Len(p) - 1)

\* lines 338-339: _binPath and _metaPath of the bin with this ID
BinPath(id) == <<id>>
MetaPath(id) == BinPath(id) \o <<MetaName>>

\* osgDB::fileType
FileType(disk, p) ==
    IF p[Len(p)] \in DotNames THEN "dir"
    ELSE IF [p |-> p, t |-> "dir"] \in disk THEN "dir"
    ELSE IF [p |-> p, t |-> "file"] \in disk THEN "file"
    ELSE "none"

\* osgDB::getDirectoryContents: the names in a directory, "." and ".." with them
getDirectoryContents(disk, dir) ==
    DotNames \cup {e.p[Len(e.p)] : e \in {d \in disk : getFilePath(d.p) = dir}}

\* the bug of an unlink whose failure goes unnoticed
UnlinkSilent(fs, full) ==
    IF FileType(fs.disk, full) = "file" /\ full \notin fs.denied
    THEN [fs |-> [fs EXCEPT !.disk = @ \ {[p |-> full, t |-> "file"]},
                            !.tried = @ \cup {full}],
          ok |-> 0]
    ELSE [fs |-> [fs EXCEPT !.tried = @ \cup {full}], ok |-> 0]

\* ::unlink(full), lines 757 and 765: it removes a file, unless that is
\* denied; on a directory it fails
Unlink(fs, full) ==
    IF FileType(fs.disk, full) = "file" /\ full \notin fs.denied
    THEN [fs |-> [fs EXCEPT !.disk = @ \ {[p |-> full, t |-> "file"]},
                            !.tried = @ \cup {full}],
          ok |-> 0]
    ELSE [fs |-> [fs EXCEPT !.tried = @ \cup {full}], ok |-> -1]

\* the bug of a purge that does not spare the bin's metadata file
DeletableAny(id, full) == TRUE

\* line 763: full != _metaPath
Deletable(id, full) == FullPath(full) # FullPath(MetaPath(id))

RECURSIVE purgeDirectory(_, _)
RECURSIVE PurgeLoop(_, _, _, _)

\* lines 744-774: the loop over the directory contents, allOK carried along.
\* What the purge of a sub-directory returns is dropped (line 755)
PurgeLoop(fs, dir, dc, allOK) ==
    IF dc = {} THEN [fs |-> fs, allOK |-> allOK]
    ELSE LET i == CHOOSE x \in dc : TRUE
             full == dir \o <<i>>
             type == FileType(fs.disk, full)
             did == IF ~Find(FullPath(full), fs.id) THEN [fs |-> fs, ok |-> 0]
                    ELSE IF type = "dir" /\ i \notin DotNames
                         THEN Unlink(purgeDirectory(fs, full).fs, full)
                    ELSE IF type = "file" /\ Deletable(fs.id, full)
                         THEN Unlink(fs, full)
                    ELSE [fs |-> fs, ok |-> 0]
         IN  PurgeLoop(did.fs, dir, dc \ {i}, allOK /\ did.ok = 0)

\* lines 736-777; the bin is valid at line 739, clear has seen to that
purgeDirectory(fs, dir) ==
    PurgeLoop(fs, dir, getDirectoryContents(fs.disk, dir), TRUE)

\* the entries the directory of a bin can hold: the metadata file, a key
\* file, and a sub-directory (of a key with a separator in it) with a file, a
\* file named like the metadata file and a sub-directory of its own
BinEntries(id) ==
    {[p |-> <<id>>, t |-> "dir"],
     [p |-> <<id, MetaName>>, t |-> "file"],
     [p |-> <<id, <<"f">>>>, t |-> "file"],
     [p |-> <<id, <<"d">>>>, t |-> "dir"],
     [p |-> <<id, <<"d">>, <<"f">>>>, t |-> "file"],
     [p |-> <<id, <<"d">>, MetaName>>, t |-> "file"],
     [p |-> <<id, <<"d">>, <<"e">>>>, t |-> "dir"],
     [p |-> <<id, <<"d">>, <<"e">>, <<"f">>>>, t |-> "file"]}

\* an entry is in a directory that exists
Closed(disk) ==
    \A e \in disk : Len(e.p) > 1 => [p |-> getFilePath(e.p), t |-> "dir"] \in disk

\* a sibling bin's directory with what it holds
SiblingEntries(id) ==
    {e \in BinEntries(id) : e.p \in {<<id>>, <<id, MetaName>>, <<id, <<"f">>>>,
                                      <<id, <<"d">>>>, <<id, <<"d">>, <<"f">>>>}}

\* the state after construction of the bin tree.id, in a cache root where
\* earlier runs left the directories of this bin and of its siblings
ClearInit ==
    /\ pc = [t \in Threads |-> "idle"]
    /\ cur = [t \in Threads |-> NoCur]
    /\ last = [c \in Callers |-> NoLast]
    /\ started = [c \in Callers |-> 0]
    /\ fails = 0
    /\ writeCache = [k \in AllKeys |-> NoRecord]
    /\ fileGate = [k \in AllKeys |-> "free"]
    /\ queue = <<>>
    /\ primary = [k \in AllKeys |-> Absent]
    /\ sidecar = [k \in AllKeys |-> "absent"]
    /\ torn = {}
    /\ ok = TRUE
    /\ binPathExists = FALSE
    /\ rwValid = TRUE
    /\ threadPool = TRUE
    /\ pool = [cache |-> TRUE, alive |-> TRUE]
    /\ reg = NoReg
    /\ dirCreatable = TRUE
    /\ \E id \in BinIDs :
       \E own \in {S \in SUBSET BinEntries(id) : Closed(S)} :
       \E sibs \in SUBSET (BinIDs \ {id}) :
       \E den \in SUBSET {e.p : e \in {x \in own : x.t = "file"}} :
        /\ tree = [id |-> id,
                   disk |-> own \cup UNION {SiblingEntries(y) : y \in sibs},
                   denied |-> den, tried |-> {}, result |-> "none"]
        /\ binDirOnDisk = ([p |-> <<id>>, t |-> "dir"] \in own)

\* the bug of a clear that purges from the cache root and relies on the latch
ClearAloneFromRoot ==
    /\ tree.result = "none"
    /\ LET v == ValidForReading IN
        /\ ok' = v.ok
        /\ binPathExists' = v.bpe
        /\ tree' = IF ~v.ok THEN [tree EXCEPT !.result = "FALSE"]
                   ELSE LET r == purgeDirectory(tree, <<>>)
                        IN  [r.fs EXCEPT !.result = IF r.allOK THEN "TRUE" ELSE "FALSE"]
    /\ UNCHANGED <<pc, cur, last, started, fails, writeCache, fileGate, queue,
                   primary, sidecar, torn, rwValid, threadPool, pool, reg,
                   binDirOnDisk, dirCreatable>>

\* clear, lines 779-787
ClearAlone ==
    /\ tree.result = "none"
    /\ LET v == ValidForReading IN
        /\ ok' = v.ok
        /\ binPathExists' = v.bpe
        /\ tree' = IF ~v.ok THEN [tree EXCEPT !.result = "FALSE"]
                   ELSE LET r == purgeDirectory(tree, getFilePath(MetaPath(tree.id)))
                        IN  [r.fs EXCEPT !.result = IF r.allOK THEN "TRUE" ELSE "FALSE"]
    /\ UNCHANGED <<pc, cur, last, started, fails, writeCache, fileGate, queue,
                   primary, sidecar, torn, rwValid, threadPool, pool, reg,
                   binDirOnDisk, dirCreatable>>

----------------------------------------------------------------------------
Next ==
    \/ \E c \in Callers, k \in Keys, mode \in ReadModes : CallRead(c, k, mode)
    \/ \E c \in Callers : ReadExists(c)
    \/ \E c \in Callers : ReadLock(c)
    \/ \E c \in Callers : ReadCache(c)
    \/ \E c \in Callers : ReadDisk(c)
    \/ \E c \in Callers : ReadMeta(c)
    \/ \E c \in Callers, k \in Keys, o \in Objs \cup {"null"}, m \in Metas : CallWrite(c, k, o, m)
    \/ \E c \in Callers : WriteInsert(c)
    \/ \E c \in Callers : WriteRun(c)
    \/ \E w \in Workers : WorkerTake(w)
    \/ \E t \in Threads : TaskLock(t)
    \/ \E t \in Threads : TaskWrite1(t)
    \/ \E t \in Threads : TaskWrite2(t)
    \/ \E t \in Threads : TaskMeta(t)
    \/ \E t \in Threads : TaskErase(t)
    \/ \E t \in Threads : TaskUnlock(t)
    \/ \E c \in Callers, k \in Keys : CallRemove(c, k)
    \/ \E c \in Callers : RemoveLock(c)
    \/ \E c \in Callers : RemoveUnlink(c)
    \/ \E c \in Callers, k \in Keys : CallTouch(c, k)
    \/ \E c \in Callers : TouchLock(c)
    \/ \E c \in Callers : TouchFile(c)
    \/ \E c \in Callers, k \in Keys : CallStatus(c, k)
    \/ \E c \in Callers : StatusExists(c)
    \/ \E c \in Callers : CallClear(c)
    \/ \E c \in Callers : ClearList(c)
    \/ \E c \in Callers : ClearUnlink(c)

Spec == Init /\ [][Next]_vars

\* setNumThreads, lines 221-235: the cache lets go of its pool, which ends it,
\* and makes a new one when num > 0. The bin keeps the pointer it was
\* constructed with (line 332); the workers finish what is queued
SetNumThreads(num) ==
    /\ pool' = [cache |-> num > 0, alive |-> pool.alive /\ ~pool.cache]
    /\ UNCHANGED <<pc, cur, last, started, fails, writeCache, fileGate, queue,
                   primary, sidecar, torn, ok, binPathExists, rwValid, threadPool,
                   tree, reg, binDirOnDisk, dirCreatable>>

\* the bin in a cache whose pool is reconfigured while it is in use
CfgNext ==
    \/ Next
    \/ \E num \in PoolSizes : SetNumThreads(num)

CfgSpec == Init /\ [][CfgNext]_vars

\* the bin directory is deleted from outside the program, with the files in
\* it; a file that a write task has open lives on without a name
DirDeleted ==
    /\ binDirOnDisk
    /\ binDirOnDisk' = FALSE
    /\ primary' = [k \in AllKeys |-> Absent]
    /\ sidecar' = [k \in AllKeys |-> "absent"]
    /\ torn' = {}
    /\ cur' = [t \in Threads |->
                IF pc[t] = "t_write2" THEN [cur[t] EXCEPT !.orphan = TRUE] ELSE cur[t]]
    /\ UNCHANGED <<pc, last, started, fails, writeCache, fileGate, queue,
                   ok, binPathExists, rwValid, threadPool, pool, tree, reg, dirCreatable>>

\* the bin directory is made again from outside the program, empty
DirCreated ==
    /\ ~binDirOnDisk
    /\ binDirOnDisk' = TRUE
    /\ UNCHANGED <<pc, cur, last, started, fails, writeCache, fileGate, queue,
                   primary, sidecar, torn,
                   ok, binPathExists, rwValid, threadPool, pool, tree, reg, dirCreatable>>

\* a bin as Init has it, whose codec may be missing (line 337 gave no
\* ReaderWriter) and whose directory may be one that cannot be made
EnvInit ==
    /\ pc = [t \in Threads |-> "idle"]
    /\ cur = [t \in Threads |-> NoCur]
    /\ last = [c \in Callers |-> NoLast]
    /\ started = [c \in Callers |-> 0]
    /\ fails = 0
    /\ writeCache = [k \in AllKeys |-> NoRecord]
    /\ fileGate = [k \in AllKeys |-> "free"]
    /\ queue = <<>>
    /\ \E e \in EarlierRun :
        /\ binDirOnDisk = e.dir
        /\ primary = [k \in AllKeys |-> IF k \in Keys THEN e.file ELSE Absent]
        /\ sidecar = [k \in AllKeys |-> IF k \in Keys THEN e.meta ELSE "absent"]
    /\ torn = {}
    /\ ok = TRUE
    /\ binPathExists = FALSE
    /\ rwValid \in BOOLEAN
    /\ threadPool \in BOOLEAN
    /\ pool = [cache |-> threadPool, alive |-> TRUE]
    /\ tree = NoTree
    /\ reg = NoReg
    /\ dirCreatable \in BOOLEAN

\* the bin in use by one caller and the pool while its directory comes and goes
EnvNext ==
    \/ Next /\ started'["c2"] = 0
    \/ DirDeleted
    \/ DirCreated

EnvSpec == EnvInit /\ [][EnvNext]_vars

\* a bin with records of two keys
LockInit ==
    /\ pc = [t \in Threads |-> "idle"]
    /\ cur = [t \in Threads |-> NoCur]
    /\ last = [c \in Callers |-> NoLast]
    /\ started = [c \in Callers |-> 0]
    /\ fails = 0
    /\ writeCache = [k \in AllKeys |-> NoRecord]
    /\ fileGate = [k \in AllKeys |-> "free"]
    /\ queue = <<>>
    /\ \E e \in EarlierRun :
        /\ binDirOnDisk = e.dir
        /\ primary = [k \in AllKeys |-> e.file]
        /\ sidecar = [k \in AllKeys |-> e.meta]
    /\ torn = {}
    /\ ok = TRUE
    /\ binPathExists = FALSE
    /\ rwValid = TRUE
    /\ threadPool \in BOOLEAN
    /\ pool = [cache |-> threadPool, alive |-> TRUE]
    /\ tree = NoTree
    /\ reg = NoReg
    /\ dirCreatable = TRUE

\* the calls of the bin on two keys; what the locks do does not depend on the
\* metadata nor on the kind of read, so the calls carry one of each
LockNext ==
    \/ \E c \in Callers, k \in AllKeys : CallRead(c, k, "readObject")
    \/ \E c \in Callers : ReadExists(c)
    \/ \E c \in Callers : ReadLock(c)
    \/ \E c \in Callers : ReadCache(c)
    \/ \E c \in Callers : ReadDisk(c)
    \/ \E c \in Callers : ReadMeta(c)
    \/ \E c \in Callers, k \in AllKeys, o \in Images \cup Nodes : CallWrite(c, k, o, "empty")
    \/ \E c \in Callers : WriteInsert(c)
    \/ \E c \in Callers : WriteRun(c)
    \/ \E w \in Workers : WorkerTake(w)
    \/ \E t \in Threads : TaskLock(t)
    \/ \E t \in Threads : TaskWrite1(t)
    \/ \E t \in Threads : TaskWrite2(t)
    \/ \E t \in Threads : TaskMeta(t)
    \/ \E t \in Threads : TaskErase(t)
    \/ \E t \in Threads : TaskUnlock(t)
    \/ \E c \in Callers, k \in AllKeys : CallRemove(c, k)
    \/ \E c \in Callers : RemoveLock(c)
    \/ \E c \in Callers : RemoveUnlink(c)
    \/ \E c \in Callers, k \in AllKeys : CallTouch(c, k)
    \/ \E c \in Callers : TouchLock(c)
    \/ \E c \in Callers : TouchFile(c)
    \/ \E c \in Callers, k \in AllKeys : CallStatus(c, k)
    \/ \E c \in Callers : StatusExists(c)
    \/ \E c \in Callers : CallClear(c)
    \/ \E c \in Callers : ClearList(c)
    \/ \E c \in Callers : ClearUnlink(c)

LockSpec == LockInit /\ [][LockNext]_vars

----------------------------------------------------------------------------
\* FileSystemCache: its constructor, addBin and getOrCreateDefaultBin

\* everything but the cache object
binSide == <<pc, cur, last, started, fails, writeCache, fileGate, queue,
             primary, sidecar, torn, ok, binPathExists, rwValid, threadPool,
             pool, tree, binDirOnDisk, dirCreatable>>

\* the constructor, lines 189-219: when makeDirectory(_rootPath) fails the
\* status is set and the constructor returns before it makes the pool
FileSystemCache(rootMade, threads) ==
    IF ~rootMade THEN [status |-> "ResourceUnavailable", threadPool |-> FALSE]
    ELSE [status |-> "OK", threadPool |-> threads > 0]

\* a cache after its constructor, with no bin yet
RegInit ==
    /\ pc = [t \in Threads |-> "idle"]
    /\ cur = [t \in Threads |-> NoCur]
    /\ last = [c \in Callers |-> NoLast]
    /\ started = [c \in Callers |-> 0]
    /\ fails = 0
    /\ writeCache = [k \in AllKeys |-> NoRecord]
    /\ fileGate = [k \in AllKeys |-> "free"]
    /\ queue = <<>>
    /\ primary = [k \in AllKeys |-> Absent]
    /\ sidecar = [k \in AllKeys |-> "absent"]
    /\ torn = {}
    /\ ok = TRUE
    /\ binPathExists = FALSE
    /\ rwValid = TRUE
    /\ tree = NoTree
    /\ binDirOnDisk = FALSE
    /\ dirCreatable = TRUE
    /\ \E rootMade \in BOOLEAN, threads \in PoolSizes :
        LET fsc == FileSystemCache(rootMade, threads) IN
        /\ reg = Cache(fsc.status)
        /\ pool = [cache |-> fsc.threadPool, alive |-> TRUE]
        /\ threadPool = fsc.threadPool

RegCanStart(c) == reg.at[c] = "idle" /\ reg.calls < MaxOps

\* the bug of an addBin that does not look at the status
CallAddBinUnchecked(c, name) ==
    /\ RegCanStart(c)
    /\ reg' = [reg EXCEPT !.calls = @ + 1, !.name[c] = name, !.made[c] = 0,
                          !.at[c] = "ab_new"]
    /\ UNCHANGED binSide

\* addBin, lines 240-241: NULL when the status is an error
CallAddBin(c, name) ==
    /\ RegCanStart(c)
    /\ reg' = IF reg.status # "OK"
              THEN [reg EXCEPT !.calls = @ + 1, !.name[c] = name, !.made[c] = 0,
                               !.ret[c] = 0]
              ELSE [reg EXCEPT !.calls = @ + 1, !.name[c] = name, !.made[c] = 0,
                               !.at[c] = "ab_new"]
    /\ UNCHANGED binSide

\* line 243, the argument: new FileSystemCacheBin(name, _rootPath, _threadPool.get())
AddBinNew(c) ==
    /\ reg.at[c] = "ab_new"
    /\ reg' = [reg EXCEPT !.built = @ + 1, !.made[c] = reg.built + 1,
                          !.at[c] = "ab_getOrCreate"]
    /\ UNCHANGED binSide

\* the bug of a registry that puts every new bin in the place of the old one
AddBinGetOrCreateReplaces(c) ==
    /\ reg.at[c] = "ab_getOrCreate"
    /\ reg' = [reg EXCEPT !.bins[reg.name[c]] = reg.made[c],
                          !.ret[c] = reg.made[c],
                          !.at[c] = "idle"]
    /\ UNCHANGED binSide

\* line 243, _bins.getOrCreate(name, bin): the bin registered under the name,
\* which is the new one when there was none
AddBinGetOrCreate(c) ==
    /\ reg.at[c] = "ab_getOrCreate"
    /\ LET n == reg.name[c]
           b == IF reg.bins[n] = 0 THEN reg.made[c] ELSE reg.bins[n]
       IN  reg' = [reg EXCEPT !.bins[n] = b, !.ret[c] = b, !.at[c] = "idle"]
    /\ UNCHANGED binSide

\* getOrCreateDefaultBin, lines 249-250: NULL when the status is an error
CallDefaultBin(c) ==
    /\ RegCanStart(c)
    /\ reg' = IF reg.status # "OK"
              THEN [reg EXCEPT !.calls = @ + 1, !.name[c] = "__default", !.made[c] = 0,
                               !.ret[c] = 0]
              ELSE [reg EXCEPT !.calls = @ + 1, !.name[c] = "__default", !.made[c] = 0,
                               !.at[c] = "db_check"]
    /\ UNCHANGED binSide

\* line 253: _defaultBin.valid(), read with no lock held while another thread
\* may be assigning it (line 258): the read gives the pointer that is there
\* or, when one has been stored, still the null of before
DefaultCheck(c) ==
    /\ reg.at[c] = "db_check"
    /\ \E seen \in {reg.defaultBin, 0} :
        reg' = [reg EXCEPT !.at[c] = IF seen # 0 THEN "db_return" ELSE "db_lock"]
    /\ UNCHANGED binSide

\* line 255: ScopedMutexLock lock(s_defaultBinMutex)
DefaultLock(c) ==
    /\ reg.at[c] = "db_lock"
    /\ reg.lockDefault = "free"
    /\ reg' = [reg EXCEPT !.lockDefault = c, !.at[c] = "db_check2"]
    /\ UNCHANGED binSide

\* the bug of a default bin made without the second look
DefaultCheck2NoRecheck(c) ==
    /\ reg.at[c] = "db_check2"
    /\ reg' = [reg EXCEPT !.at[c] = "db_new"]
    /\ UNCHANGED binSide

\* line 256: the second look, inside the mutex
DefaultCheck2(c) ==
    /\ reg.at[c] = "db_check2"
    /\ reg' = [reg EXCEPT !.at[c] = IF reg.defaultBin = 0 THEN "db_new" ELSE "db_unlock"]
    /\ UNCHANGED binSide

\* line 258: _defaultBin = new FileSystemCacheBin("__default", ...)
DefaultNew(c) ==
    /\ reg.at[c] = "db_new"
    /\ reg' = [reg EXCEPT !.built = @ + 1, !.made[c] = reg.built + 1,
                          !.defaultBin = reg.built + 1,
                          !.at[c] = "db_unlock"]
    /\ UNCHANGED binSide

\* line 260: the lock goes out of scope
DefaultUnlock(c) ==
    /\ reg.at[c] = "db_unlock"
    /\ reg' = [reg EXCEPT !.lockDefault = "free", !.at[c] = "db_return"]
    /\ UNCHANGED binSide

\* line 261: return _defaultBin.get(), by a thread that has seen the pointer
\* or has been inside the mutex after it was stored
DefaultReturn(c) ==
    /\ reg.at[c] = "db_return"
    /\ reg' = [reg EXCEPT !.ret[c] = reg.defaultBin, !.at[c] = "idle"]
    /\ UNCHANGED binSide

RegNext ==
    \/ \E c \in Callers, name \in BinNames : CallAddBin(c, name)
    \/ \E c \in Callers : AddBinNew(c)
    \/ \E c \in Callers : AddBinGetOrCreate(c)
    \/ \E c \in Callers : CallDefaultBin(c)
    \/ \E c \in Callers : DefaultCheck(c)
    \/ \E c \in Callers : DefaultLock(c)
    \/ \E c \in Callers : DefaultCheck2(c)
    \/ \E c \in Callers : DefaultNew(c)
    \/ \E c \in Callers : DefaultUnlock(c)
    \/ \E c \in Callers : DefaultReturn(c)

RegSpec == RegInit /\ [][RegNext]_vars

\* one clear of a bin over the directory tree
ClearNext == ClearAlone

ClearSpec == ClearInit /\ [][ClearNext]_vars

\* the threads run: a call or task that has started takes its next step
Step(t) ==
    \/ ReadExists(t) \/ ReadLock(t) \/ ReadCache(t) \/ ReadDisk(t) \/ ReadMeta(t)
    \/ WriteInsert(t) \/ WriteRun(t) \/ (t \in Workers /\ WorkerTake(t))
    \/ TaskLock(t) \/ TaskWrite1(t) \/ TaskWrite2(t) \/ TaskMeta(t)
    \/ TaskErase(t) \/ TaskUnlock(t)
    \/ RemoveLock(t) \/ RemoveUnlink(t) \/ TouchLock(t) \/ TouchFile(t)
    \/ StatusExists(t) \/ ClearList(t) \/ ClearUnlink(t)

\* fair scheduling of the callers and the pool workers; a thread waiting at
\* the gate gets it once it stays free
FairSpec == Spec /\ \A t \in Threads : WF_vars(Step(t))

----------------------------------------------------------------------------
\* vocabulary of the properties

ReadPcs == {"rd_exists", "rd_lock", "rd_cache", "rd_disk", "rd_meta"}
TaskPcs == {"t_lock", "t_write1", "t_write2", "t_meta", "t_erase", "t_unlock"}
\* the places of a write task after the gate was taken
TaskGatePcs == TaskPcs \ {"t_lock"}
\* the places where a thread is inside the gate of its key
GatePcs == TaskGatePcs \cup {"rd_cache", "rd_disk", "rd_meta", "rm_unlink", "tc_touch"}
\* the places where the next thing a thread does is a disk operation on a key file
DiskPcs == {"rd_exists", "rd_disk", "rd_meta", "t_write1", "t_write2", "t_meta",
            "rm_unlink", "tc_touch", "gs_exists"}

ReadReturns(c) == pc[c] \in ReadPcs /\ pc'[c] = "idle"
OnlyCaller(c) == \A d \in Callers \ {c} : started[d] = 0
MidWrite(t, k) == pc[t] = "t_write2" /\ cur[t].key = k
InDiskOp(t, k) ==
    \/ pc[t] \in DiskPcs /\ cur[t].key = k
    \/ pc[t] = "cl_unlink" /\ Head(cur[t].dc).key = k
CleanFile(f) == f = Absent \/ (f.a \in Objs /\ f.b = f.a)
\* no write is accepted and not yet finished
Drained ==
    /\ queue = <<>>
    /\ \A t \in Threads : pc[t] \notin TaskPcs \cup {"wr_run"}

----------------------------------------------------------------------------
\* C1: read-your-writes. A readObject(k) that a thread issues right after its
\* own write(k, o, meta) of a non-node object returned true, with only the pool
\* workers running beside it, returns o with that metadata.
ReadYourWrites ==
    [][\A c \in Callers :
        ( /\ ReadReturns(c)
          /\ cur[c].op = "readObject"
          /\ OnlyCaller(c)
          /\ last[c].op = "write" /\ last[c].code = "TRUE"
          /\ last[c].obj \notin Nodes
          /\ last[c].key = cur[c].key )
        => /\ last'[c].code = "OK"
           /\ last'[c].robj = last[c].obj
           /\ last'[c].rmeta = last[c].meta]_vars

\* C2: a read(k) that returns while the write-pending cache holds an entry for k
\* returns that entry's object and metadata.
OverlayReadWins ==
    [][\A c \in Callers :
        (ReadReturns(c) /\ threadPool /\ writeCache[cur[c].key] # NoRecord)
        => /\ last'[c].code = "OK"
           /\ last'[c].robj = writeCache[cur[c].key].obj
           /\ last'[c].rmeta = writeCache[cur[c].key].meta]_vars

\* C3: at most one thread at a time is in a disk operation on the files of a key.
OneDiskOpPerKey ==
    \A k \in Keys : Cardinality({t \in Threads : InDiskOp(t, k)}) <= 1

\* C4: write tasks and removes of one key exclude each other: the primary file
\* never holds parts of two objects, at most one write task or remove works on
\* the file at a time, and whenever no task is in the middle of writing it (and
\* no failed write left it incomplete) the file is absent or one complete object.
WriteRemoveExclusion ==
    \A k \in Keys :
        /\ primary[k] # Absent => primary[k].b \in {"none", primary[k].a}
        /\ Cardinality({t \in Threads :
                /\ pc[t] \in {"t_write1", "t_write2", "rm_unlink"}
                /\ cur[t].key = k}) <= 1
        /\ (k \notin torn /\ \A t \in Threads : ~MidWrite(t, k)) => CleanFile(primary[k])

\* a write task is in the middle of the file of a key while another write
\* task of another object, or a remove, waits at the gate of the key
WriteRemoveContend ==
    \E k \in Keys : \E t, u \in Threads :
        /\ MidWrite(t, k) /\ primary[k] = Partial(cur[t].obj)
        /\ cur[u].key = k
        /\ \/ pc[u] = "t_lock" /\ cur[u].obj # cur[t].obj
           \/ pc[u] = "rm_lock"

\* C5: a write task holds the gate of its key from the primary write to the
\* erase of the write-cache entry, in one hold; every thread that is inside the
\* gate of a key is the one holder of that key.
TaskInOneGateHold ==
    \A t \in Threads : pc[t] \in GatePcs => fileGate[cur[t].key] = t

\* a task has written the primary file and not yet erased its entry, while a
\* read, a remove or a touch of the same key waits at the gate
TaskHoldsWhileOthersWait ==
    \E t \in Workers : \E c \in Callers :
        /\ pc[t] \in {"t_meta", "t_erase"} /\ cur[t].writeOK = "ok"
        /\ writeCache[cur[t].key] # NoRecord
        /\ pc[c] \in {"rd_lock", "rm_lock", "tc_lock"} /\ cur[c].key = cur[t].key

\* C6: a write-cache entry of k goes away only in the erase step of a write
\* task for k whose primary write attempt is over, and every write task erases
\* the entry of its key, whether its write succeeded or failed.
EraseOnlyAfterWrite ==
    [][/\ \A k \in Keys :
            (writeCache[k] # NoRecord /\ writeCache'[k] = NoRecord)
            => \E t \in Threads :
                /\ pc[t] = "t_erase" /\ pc'[t] = "t_unlock"
                /\ cur[t].key = k
                /\ cur[t].writeOK \in {"ok", "fail"}
       /\ \A t \in Threads :
            (pc[t] = "t_erase" /\ pc'[t] # "t_erase")
            => /\ cur[t].writeOK \in {"ok", "fail"}
               /\ writeCache'[cur[t].key] = NoRecord]_vars

\* a worker's task whose write failed has erased the entry
ErasedAfterFailure ==
    \E t \in Workers :
        /\ pc[t] = "t_unlock" /\ cur[t].writeOK = "fail"
        /\ writeCache[cur[t].key] = NoRecord

EraseOwnEntryOnly ==
    [][\A t \in Threads :
        (pc[t] = "t_erase" /\ pc'[t] = "t_unlock" /\ writeCache[cur[t].key] # NoRecord)
        => writeCache[cur[t].key] = WriteCacheRecord(cur[t].obj, cur[t].meta)]_vars

\* C9: eventual persistence. With the pool drained, no failed write and nothing
\* in the write cache, a readObject(k) that follows the thread's write(k, o, meta)
\* returns o with that metadata from disk.
EventualPersistence ==
    [][\A c \in Callers :
        ( /\ ReadReturns(c)
          /\ cur[c].op = "readObject"
          /\ OnlyCaller(c)
          /\ Drained /\ fails = 0
          /\ writeCache[cur[c].key] = NoRecord
          /\ last[c].op = "write" /\ last[c].code = "TRUE"
          /\ last[c].key = cur[c].key )
        => /\ last'[c].code = "OK"
           /\ last'[c].robj = last[c].obj
           /\ last'[c].rmeta = last[c].meta]_vars

\* C10: an asynchronous write never holds the gate and can always take its
\* next step, whoever holds the gate of its key; it puts {object, meta} into
\* the write cache, queues one write task for the key and returns true.
WriteNeverWaits ==
    /\ [](\A c \in Callers : pc[c] \in {"wr_insert", "wr_run"} =>
            /\ \A k \in Keys : fileGate[k] # c
            /\ ENABLED (WriteInsert(c) \/ WriteRun(c)))
    /\ [][\A c \in Callers :
            /\ (pc[c] = "wr_insert" /\ pc'[c] # "wr_insert")
               => /\ pc'[c] = "wr_run"
                  /\ writeCache'[cur[c].key] = WriteCacheRecord(cur[c].obj, cur[c].meta)
                  /\ queue' = queue
            /\ (pc[c] = "wr_run" /\ pc'[c] # "wr_run")
               => /\ queue' = Append(queue, [key |-> cur[c].key, obj |-> cur[c].obj,
                                               meta |-> cur[c].meta])
                  /\ pc'[c] = "idle"
                  /\ last'[c].op = "write" /\ last'[c].code = "TRUE"
                  /\ writeCache' = writeCache]_vars

\* a write has put its record into the write cache while another thread holds
\* the gate of the key
WriteInsertedUnderForeignGate ==
    \E c \in Callers : \E t \in Threads \ {c} :
        /\ pc[c] = "wr_run"
        /\ fileGate[cur[c].key] = t
        /\ writeCache[cur[c].key] = WriteCacheRecord(cur[c].obj, cur[c].meta)

\* C11: a write of a node is synchronous even when the bin has a pool: the
\* node never enters the write cache or the queue and no worker handles it;
\* the calling thread runs the write task under the gate of the key, and the
\* attempt to write the file is over when write returns.
NodeWriteSynchronous ==
    /\ [](\A c \in Callers : (cur[c].op = "write" /\ cur[c].obj \in Nodes) =>
            /\ pc[c] \in TaskPcs
            /\ pc[c] \in TaskGatePcs => fileGate[cur[c].key] = c)
    /\ [](/\ \A k \in Keys : writeCache[k].obj \notin Nodes
          /\ \A i \in 1..Len(queue) : queue[i].obj \notin Nodes
          /\ \A w \in Workers : cur[w].obj \notin Nodes)
    /\ [][\A c \in Callers :
            (cur[c].op = "write" /\ cur[c].obj \in Nodes /\ pc'[c] # pc[c])
            => /\ queue' = queue
               /\ writeCache' = writeCache \/ pc[c] = "t_erase"
               /\ pc'[c] = "idle" =>
                    /\ pc[c] = "t_unlock"
                    /\ cur[c].writeOK \in {"ok", "fail"}
                    /\ last'[c].op = "write" /\ last'[c].obj = cur[c].obj]_vars

\* a caller of a bin with a pool has written a node to the file itself
NodeWrittenByCaller ==
    \E c \in Callers :
        /\ threadPool
        /\ pc[c] = "t_unlock" /\ cur[c].obj \in Nodes /\ cur[c].writeOK = "ok"
        /\ primary[cur[c].key] = Complete(cur[c].obj)
        /\ writeCache[cur[c].key] = NoRecord /\ queue = <<>>

\* C12: a write takes the asynchronous way (write cache and pool) only when
\* the cache is configured with a pool and the pool the bin submits to is that
\* one, not a pool that setNumThreads has replaced; with the pool size set to
\* zero every write is synchronous.
ZeroPoolWritesSynchronous ==
    [][\A c \in Callers :
        (pc[c] = "idle" /\ pc'[c] = "wr_insert") => (pool.cache /\ pool.alive)]_vars

\* C13: a write whose task ran on the calling thread (no pool, or a node) and
\* failed to write the primary file returns false.
FailedSyncWriteReturnsFalse ==
    [][\A c \in Callers :
        (pc[c] = "t_unlock" /\ pc'[c] = "idle" /\ cur[c].writeOK = "fail")
        => (last'[c].op = "write" /\ last'[c].code = "FALSE")]_vars

\* C14: remove is idempotent. A remove(k) that finds no primary file returns
\* false and changes neither the files nor the write cache, on a valid bin and
\* on an invalid one; after any remove(k) the file is absent; and when a
\* thread calls remove(k) twice from the start, nothing else running, the
\* second call returns false and leaves everything as the first left it.
RemoveIdempotent ==
    [][\A c \in Callers :
        /\ (pc[c] = "rm_unlink" /\ pc'[c] = "idle") =>
            LET k == cur[c].key IN
            /\ primary'[k] = Absent
            /\ primary[k] = Absent =>
                /\ last'[c].code = "FALSE"
                /\ UNCHANGED <<primary, sidecar, writeCache, queue, tree>>
            /\ (started[c] = 2 /\ OnlyCaller(c) /\ last[c].op = "remove" /\ last[c].key = k) =>
                /\ last'[c].code = "FALSE"
                /\ UNCHANGED <<primary, sidecar, writeCache, queue, tree>>
        /\ (pc[c] = "idle" /\ pc'[c] = "idle" /\ started'[c] # started[c]
                /\ last'[c].op = "remove") =>
            /\ last'[c].code = "FALSE"
            /\ UNCHANGED <<primary, sidecar, writeCache, queue, tree>>]_vars

\* a thread has removed the file of a key and then called remove(k) again,
\* which returned false; the sidecar that came with the file is still there
SecondRemoveOfRemovedFile ==
    \E c \in Callers : \E k \in Keys :
        /\ pc[c] = "idle" /\ started[c] = 2 /\ OnlyCaller(c)
        /\ last[c].op = "remove" /\ last[c].key = k /\ last[c].code = "FALSE"
        /\ binPathExists /\ primary[k] = Absent /\ sidecar[k] = "m1"

\* C15: remove wins over a write in flight. When a thread's remove(k) was
\* issued after its asynchronous write(k) was accepted and before the write
\* task finished, then once the remove and the task have both finished the
\* primary file of k is absent.
RemoveWinsOverWrite ==
    [][\A c \in Callers : \A t \in Workers :
        ( /\ pc[t] = "t_unlock" /\ pc'[t] = "idle"
          /\ Drained'
          /\ OnlyCaller(c) /\ pc[c] = "idle"
          /\ last[c].op = "remove" /\ last[c].key = cur[t].key )
        => primary'[cur[t].key] = Absent]_vars

\* no call and no write task is running, and nothing is queued
Quiescent == queue = <<>> /\ \A t \in Threads : pc[t] = "idle"

\* C16: in every state with no call or task running, getRecordStatus(k)
\* returns OK if and only if readObject(k) finds a record.
StatusAgreesWithRead ==
    Quiescent => \A k \in Keys : (StatusAlone(k) = "OK" <=> ReadObjectAlone(k) = "OK")

\* the entries below the directory of a bin
Under(disk, id) == {e \in disk : Len(e.p) > 1 /\ e.p[1] = id}
\* the entry of tree.disk at a path on which unlink fails
UnlinkFailsOn(p) == p \in tree.denied \/ [p |-> p, t |-> "dir"] \in tree.disk
ClearReturns == tree.result = "none" /\ tree'.result # "none"

\* C17: clear of a bin leaves every file and directory under the directory of
\* a sibling bin in place and calls unlink on none of them, also when the ID
\* of one bin is a part of the other's.
ClearSparesSiblings ==
    [][ClearReturns =>
        \A e \in tree.disk :
            e.p[1] # tree.id => (e \in tree'.disk /\ e.p \notin tree'.tried)]_vars

\* the bin "ab" has cleared files of its own, beside the bins "a" and "abc"
ClearedBesideSiblings ==
    /\ tree.id = <<"a", "b">> /\ tree.result = "TRUE"
    /\ tree.tried # {}
    /\ \A y \in BinIDs \ {tree.id} : [p |-> <<y, <<"f">>>>, t |-> "file"] \in tree.disk

\* C18: clear deletes neither the bin's directory nor the bin's metadata file
\* and calls unlink on neither; it calls unlink only on other entries below the
\* bin directory, whose path holds the bin's ID, and nothing else goes.
ClearKeepsBinDirAndMeta ==
    [][ClearReturns =>
        /\ \A e \in tree.disk :
              e.p \in {BinPath(tree.id), MetaPath(tree.id)}
              => (e \in tree'.disk /\ e.p \notin tree'.tried)
        /\ \A p \in tree'.tried :
              /\ Len(p) > 1 /\ p[1] = tree.id
              /\ Find(FullPath(p), tree.id)
        /\ tree'.disk \subseteq tree.disk
        /\ \A e \in tree.disk \ tree'.disk : e.p \in tree'.tried]_vars

\* a clear has removed a key file and a file named like the metadata file in
\* a sub-directory; the bin's metadata file is there
ClearedAroundMeta ==
    /\ tree.result = "FALSE"
    /\ [p |-> MetaPath(tree.id), t |-> "file"] \in tree.disk
    /\ <<tree.id, <<"f">>>> \in tree.tried
    /\ <<tree.id, <<"d">>, MetaName>> \in tree.tried
    /\ [p |-> <<tree.id, <<"d">>, MetaName>>, t |-> "file"] \notin tree.disk

\* C19: clear on a valid bin returns false if and only if an unlink it called
\* failed, at any depth; it calls unlink on every entry below the bin directory
\* but the metadata file, whatever failed before, and every file whose unlink
\* works is gone. On an invalid bin it returns false and calls no unlink.
ClearReportsFailures ==
    [][ClearReturns =>
        IF ValidForReading.ok
        THEN /\ tree'.result = "FALSE" <=> \E p \in tree'.tried : UnlinkFailsOn(p)
             /\ tree'.tried = {e.p : e \in Under(tree.disk, tree.id)} \ {MetaPath(tree.id)}
             /\ tree'.disk = {e \in tree.disk :
                                e.p \in tree'.tried => UnlinkFailsOn(e.p)}
        ELSE /\ tree'.result = "FALSE"
             /\ tree'.tried = {} /\ tree'.disk = tree.disk]_vars

\* the unlink of a file two directories down has failed and clear has gone on:
\* the other files are gone and clear returned false
ClearWentOnAfterFailure ==
    /\ tree.result = "FALSE"
    /\ tree.denied = {<<tree.id, <<"d">>, <<"e">>, <<"f">>>>}
    /\ tree.denied \subseteq tree.tried
    /\ {<<tree.id, <<"f">>>>, <<tree.id, <<"d">>, <<"f">>>>} \subseteq tree.tried
    /\ \A e \in Under(tree.disk, tree.id) :
          e.t = "file" => e.p \in tree.denied \cup {MetaPath(tree.id)}

\* the result of a cache miss
IsMiss(r) == r.code = "NOT_FOUND" /\ r.robj = "null" /\ r.rmeta = "empty"

----------------------------------------------------------------------------
\* a caller starts a call; the call is refused when it returns at once with
\* NotFound or false
CallStep(c) == pc[c] = "idle" /\ started'[c] = started[c] + 1
CallOp(c) == IF pc'[c] = "idle" THEN last'[c].op ELSE cur'[c].op
Refused(c) == pc'[c] = "idle" /\ last'[c].code \in {"NOT_FOUND", "FALSE"}
Accepted(c) == pc'[c] # "idle"

\* C21: validity recovers lazily. While the bin has not seen its directory and
\* the directory is missing, every read, getRecordStatus, remove, touch and
\* clear is refused and the bin stays unseen; the first such call made when
\* the directory is there is accepted, also after refused ones; and when the
\* codec is missing every call, write too, is refused.
LazyRecovery ==
    [][\A c \in Callers : CallStep(c) =>
        /\ ~rwValid => (Refused(c) /\ ~ok')
        /\ (rwValid /\ CallOp(c) # "write" /\ ~binPathExists /\ ~binDirOnDisk)
            => (Refused(c) /\ ~ok' /\ ~binPathExists')
        /\ (rwValid /\ CallOp(c) # "write" /\ ~binPathExists /\ binDirOnDisk)
            => (Accepted(c) /\ ok' /\ binPathExists')]_vars

\* a clear was refused though the codec is there, so the directory was found
\* missing; the caller's next call, not a write, was accepted
RecoveredAfterMissing ==
    \E c \in Callers :
        /\ rwValid
        /\ last[c].op = "clear" /\ last[c].code = "FALSE"
        /\ started[c] = 2 /\ pc[c] # "idle" /\ cur[c].op # "write"
        /\ cur[c].dirThen

----------------------------------------------------------------------------
CallObj(c) == IF pc'[c] = "idle" THEN last'[c].obj ELSE cur'[c].obj

\* C27: validity is cached. Once a check has seen the directory
\* (_binPathExists), the codec being there, the flag and _ok stay true, and
\* every later call is accepted without a look at the directory or an attempt
\* to make it, also when the directory has been deleted from outside; only a
\* write of a null object is still refused.
ValidityCached ==
    /\ [](binPathExists => (rwValid /\ ok))
    /\ [][/\ binPathExists => (binPathExists' /\ ok')
          /\ \A c \in Callers : (CallStep(c) /\ binPathExists) =>
                /\ UNCHANGED binDirOnDisk
                /\ IF CallOp(c) = "write" /\ CallObj(c) = "null"
                   THEN Refused(c) ELSE Accepted(c)]_vars

\* a call other than write was accepted that began when the directory was gone
AcceptedWhileDirGone ==
    \E c \in Callers :
        /\ pc[c] # "idle" /\ cur[c].op \notin {"write", "none"}
        /\ ~cur[c].dirThen
        /\ binPathExists

----------------------------------------------------------------------------
\* C25: write refuses cleanly and makes the directory on first use. A write is
\* refused exactly when the object is null, the codec is missing, or the bin
\* has not seen its directory and the directory is neither there nor can be
\* made; a refused write returns false and leaves the write cache, the pool's
\* queue and the key files as they were. A write of an object to a bin whose
\* directory is missing but can be made is accepted, the directory is there
\* after its validity check, and the write returns true.
WriteRefusalAndFirstUse ==
    [][\A c \in Callers :
        /\ (CallStep(c) /\ CallOp(c) = "write") =>
            /\ Refused(c) <=> \/ CallObj(c) = "null"
                              \/ ~rwValid
                              \/ ~binPathExists /\ ~binDirOnDisk /\ ~dirCreatable
            /\ Refused(c) =>
                /\ last'[c].code = "FALSE"
                /\ UNCHANGED <<writeCache, queue, primary, sidecar, torn>>
            /\ (rwValid /\ ~binPathExists /\ ~binDirOnDisk /\ dirCreatable
                    /\ CallObj(c) # "null")
                => (Accepted(c) /\ binDirOnDisk' /\ binPathExists' /\ ok')
        /\ (pc[c] # "idle" /\ cur[c].op = "write" /\ pc'[c] = "idle")
            => last'[c].code = "TRUE"]_vars

\* the first call on a bin is a write of an object that began with the
\* directory missing; it was accepted and the directory is there
FirstWriteMadeDirectory ==
    \E c \in Callers :
        /\ started[c] = 1 /\ OnlyCaller(c)
        /\ pc[c] \in {"wr_insert", "t_lock"} /\ cur[c].op = "write"
        /\ ~cur[c].dirThen
        /\ binDirOnDisk /\ binPathExists

----------------------------------------------------------------------------
\* C26: a write task writes the sidecar if and only if the primary write
\* succeeded and the metadata is not empty: then the sidecar of its key holds
\* its metadata, otherwise every sidecar is as it was; no other step of a task
\* writes a sidecar; and after a failed primary write as after a good one the
\* task goes on to erase the write-cache entry of its key and to release the
\* gate it holds.
SidecarIffPrimaryWritten ==
    [][\A t \in Threads :
        (pc[t] \in TaskPcs /\ pc'[t] # pc[t]) =>
            LET k == cur[t].key IN
            /\ pc[t] = "t_meta" =>
                /\ sidecar' = IF cur[t].writeOK = "ok" /\ cur[t].meta # "empty"
                              THEN [sidecar EXCEPT ![k] = cur[t].meta]
                              ELSE sidecar
                /\ pc'[t] = "t_erase"
            /\ pc[t] # "t_meta" => sidecar' = sidecar
            /\ pc[t] \in {"t_write1", "t_write2"} =>
                (cur'[t].writeOK = "fail" => pc'[t] = "t_meta")
            /\ pc[t] = "t_erase" =>
                (writeCache'[k] = NoRecord /\ pc'[t] = "t_unlock")
            /\ pc[t] = "t_unlock" =>
                (fileGate[k] = t /\ fileGate'[k] = "free")]_vars

\* a task whose primary write failed has passed the sidecar step with
\* metadata to write, and the sidecar does not hold them
FailedTaskLeftSidecar ==
    \E t \in Threads :
        /\ pc[t] = "t_erase"
        /\ cur[t].writeOK = "fail" /\ cur[t].meta # "empty"
        /\ sidecar[cur[t].key] # cur[t].meta

----------------------------------------------------------------------------
\* the places where the next thing a thread does is to take the gate of its
\* key, and those where it takes the lock of the write cache
LockPcs == {"rd_lock", "t_lock", "rm_lock", "tc_lock"}
OverlayPcs == {"wr_insert", "rd_cache", "t_erase"}
Held(t) == {k \in AllKeys : fileGate[k] = t}
Waiting(t) == pc[t] \in LockPcs /\ fileGate[cur[t].key] # "free"

\* C28: the locks cannot deadlock. As long as a call or task is unfinished or
\* an operation is queued, some thread can take a step; a thread waits only at
\* a gate, for a key that another thread holds, and a thread that holds a key
\* can always take its next step. A thread holds at most one key, and none
\* when it is idle or asks for one. The lock of the write cache is taken by a
\* write with no key held and by a read and a task inside the key they hold;
\* no step takes a gate and the lock of the write cache together.
DeadlockFree ==
    /\ []((queue # <<>> \/ \E t \in Threads : pc[t] # "idle")
            => ENABLED (\E t \in Threads : Step(t)))
    /\ [](\A t \in Threads :
            /\ Cardinality(Held(t)) <= 1
            /\ pc[t] \in LockPcs \cup {"idle"} => Held(t) = {}
            /\ pc[t] # "idle" =>
                \/ ENABLED Step(t)
                \/ Waiting(t) /\ fileGate[cur[t].key] # t
            /\ Held(t) # {} => ENABLED Step(t)
            /\ pc[t] = "wr_insert" => Held(t) = {}
            /\ pc[t] \in {"rd_cache", "t_erase"} => Held(t) = {cur[t].key})
    /\ [][\A t \in Threads : \A k \in AllKeys :
            (fileGate[k] # t /\ fileGate'[k] = t) =>
                /\ pc[t] \in LockPcs /\ cur[t].key = k /\ fileGate[k] = "free"
                /\ pc[t] \notin OverlayPcs
                /\ writeCache' = writeCache]_vars

\* a thread waits at the gate of a key that another thread holds and works in
ThreadWaitsForHolder ==
    \E t, u \in Threads :
        /\ t # u
        /\ Waiting(t) /\ fileGate[cur[t].key] = u
        /\ ~ENABLED Step(t)
        /\ ENABLED Step(u)

----------------------------------------------------------------------------
\* C29: the last writer wins on disk. When a thread alone has made two calls,
\* the second a write(k, o2) that the pool ran, no disk failure happened and
\* every call and task has finished, the primary file of k holds o2, whatever
\* the first call was and in whatever order the workers took the tasks.
LastWriterWins ==
    \A c \in Callers :
        ( /\ Quiescent /\ OnlyCaller(c) /\ fails = 0
          /\ threadPool
          /\ started[c] = 2
          /\ last[c].op = "write" /\ last[c].code = "TRUE"
          /\ last[c].obj \notin Nodes )
        => primary[last[c].key] = Complete(last[c].obj)

\* C30: a cold read returns the metadata of the write whose object is in the
\* primary file. When a thread alone wrote (k, o2) with empty metadata last, no
\* disk failure happened, every call and task has finished and the primary
\* file of k holds o2, the metadata a read of k takes from the sidecar is empty.
ColdReadMetadata ==
    \A c \in Callers : \A k \in Keys :
        ( /\ Quiescent /\ OnlyCaller(c) /\ fails = 0
          /\ last[c].op = "write" /\ last[c].code = "TRUE"
          /\ last[c].key = k /\ last[c].meta = "empty"
          /\ writeCache[k] = NoRecord
          /\ primary[k] = Complete(last[c].obj) )
        => /\ ReadObjectAlone(k) = "OK"
           /\ ReadMetaFile(k) = "empty"

----------------------------------------------------------------------------
AddBinReturns(c) == reg.at[c] = "ab_getOrCreate" /\ reg'.at[c] = "idle"
DefaultBinReturns(c) == reg.at[c] = "db_return" /\ reg'.at[c] = "idle"

\* C22: addBin creates or gets. A bin registered under a name is never
\* replaced nor removed; every addBin(name) on a cache that opened returns the
\* bin registered under the name, which is the one that was there before the
\* call whenever there was one.
AddBinCreatesOrGets ==
    [][/\ \A n \in BinNames : reg.bins[n] # 0 => reg'.bins[n] = reg.bins[n]
       /\ \A c \in Callers : AddBinReturns(c) =>
            LET n == reg.name[c] IN
            /\ reg'.ret[c] # 0
            /\ reg'.ret[c] = reg'.bins[n]
            /\ reg.bins[n] # 0 => reg'.ret[c] = reg.bins[n]]_vars

\* an addBin constructed a bin and was returned another, the one registered
\* under the name by an earlier call
AddBinGotExisting ==
    \E c \in Callers :
        /\ reg.at[c] = "idle" /\ reg.name[c] \in BinNames
        /\ reg.made[c] # 0 /\ reg.ret[c] > 0
        /\ reg.ret[c] # reg.made[c]
        /\ reg.ret[c] = reg.bins[reg.name[c]]

\* C23: one default bin. Once _defaultBin is set it is never set again; the
\* thread that constructs a default bin does so with none set and inside the
\* mutex; and every getOrCreateDefaultBin on a cache that opened returns the
\* bin that is set, whichever threads call it and however they interleave.
OneDefaultBin ==
    /\ [](\A c \in Callers :
            reg.at[c] = "db_new" => (reg.defaultBin = 0 /\ reg.lockDefault = c))
    /\ [][/\ reg.defaultBin # 0 => reg'.defaultBin = reg.defaultBin
          /\ \A c \in Callers :
                /\ (reg.at[c] = "db_new" /\ reg'.at[c] # "db_new")
                    => reg'.defaultBin = reg'.made[c]
                /\ DefaultBinReturns(c)
                    => (reg'.ret[c] # 0 /\ reg'.ret[c] = reg'.defaultBin)]_vars

\* a thread that saw no default bin is at the mutex or inside it while the
\* default bin has been set by another thread
SecondThreadFindsDefault ==
    \E c \in Callers :
        /\ reg.at[c] \in {"db_lock", "db_check2", "db_unlock"}
        /\ reg.defaultBin # 0
        /\ reg.made[c] = 0

\* C24: when the root directory could not be made the status is an error and
\* stays one, the cache has no pool, no bin is ever constructed or registered
\* and every addBin and getOrCreateDefaultBin returns NULL at once; the status
\* of a cache that opened stays OK.
RootFailureIsHardStatus ==
    /\ [](reg.status # "OK" =>
            /\ ~pool.cache
            /\ reg.built = 0 /\ reg.defaultBin = 0
            /\ \A n \in BinNames : reg.bins[n] = 0
            /\ \A c \in Callers : reg.at[c] = "idle" /\ reg.ret[c] \in {-1, 0})
    /\ [][/\ reg'.status = reg.status
          /\ (reg.status # "OK" /\ reg'.calls # reg.calls) =>
                \E c \in Callers :
                    reg' = [reg EXCEPT !.calls = @ + 1, !.name[c] = reg'.name[c],
                                       !.made[c] = 0, !.ret[c] = 0]]_vars

\* on a cache whose root could not be made, an addBin and a
\* getOrCreateDefaultBin have returned NULL
NullFromFailedCache ==
    /\ reg.status # "OK"
    /\ \E c, d \in Callers :
        /\ reg.name[c] \in BinNames /\ reg.ret[c] = 0
        /\ reg.name[d] = "__default" /\ reg.ret[d] = 0

----------------------------------------------------------------------------
\* C31: clear keeps out of a held gate. A step of clear that unlinks the
\* primary file or the sidecar of a key is taken only when no other thread
\* holds the gate of that key, and no step of clear changes the write cache.
ClearRespectsGate ==
    [][\A c \in Callers :
        (pc[c] \in {"cl_list", "cl_unlink"} /\ cur'[c] # cur[c]) =>
            /\ writeCache' = writeCache
            /\ \A k \in AllKeys :
                (primary'[k] # primary[k] \/ sidecar'[k] # sidecar[k])
                    => fileGate[k] \in {"free", c}]_vars

====
